---- MODULE Spec2Model ----
(***************************************************************************)
(* pymake: ordering of Fortran / C source files for compilation            *)
(* (pymake.py, get_ordered_srcfiles), the ISO_C_BINDING scan (get_iso_c)   *)
(* and the build itself (main, compile_with_gnu, compile_with_mac_ifort,   *)
(* compile_with_ifort).                                                    *)
(*                                                                         *)
(* Strings are sequences of one-character strings, so that lower(),        *)
(* upper(), endswith(), strip(), split() are computed as Python computes   *)
(* them.  The module engine of dag.py (order_source_files,                 *)
(* order_c_source_files) is not part of the sources at hand; it is         *)
(* modelled from the design document (sections 4.1 - 4.5).                 *)
(***************************************************************************)
EXTENDS Integers, Sequences, FiniteSets, TLC

VARIABLES
    tree,                \* the source tree as os.walk yields it (discovery order)
    include_subdir,      \* get_ordered_srcfiles' include_subdir argument
    pc,                  \* position of the ordering run
    srcfiles,            \* get_ordered_srcfiles: the Fortran bucket
    cfiles,              \* get_ordered_srcfiles: the C/C++ bucket
    orderedsourcefiles,  \* the list get_ordered_srcfiles returns
    registry,            \* the engine's Module Registry: module name -> unit
    graph,               \* the engine's Dependency Graph: its edges
    diagnostics,         \* the engine's diagnostic record
    iso_srcfiles,        \* get_iso_c: the list of files it is given
    iso_pc,              \* get_iso_c: position in the scan
    iso_i,               \* get_iso_c: index of the current srcfile
    lines,               \* get_iso_c: the decoded lines of the open file
    idx,                 \* get_iso_c: index of the current line
    iso_ret,             \* get_iso_c: the returned value
    fc,                  \* main: the Fortran compiler asked for
    platform,            \* sys.platform
    toolchain,           \* whether the compiler asked for is installed
    flopy_avail,         \* whether flopy could be imported
    expedite,            \* main: compile only out-of-date files
    dryrun,              \* main: print the commands, run none
    main_pc,             \* position of main and of the compile function
    cflags,              \* the C compiler flags
    compiles,            \* the compile commands so far, one record a file
    objfiles,            \* the object files saved for the link
    link,                \* the link command
    makefile_written,    \* whether create_makefile was called
    success              \* what the compile function returned

vars == <<tree, include_subdir, pc, srcfiles, cfiles, orderedsourcefiles,
          registry, graph, diagnostics,
          iso_srcfiles, iso_pc, iso_i, lines, idx, iso_ret,
          fc, platform, toolchain, flopy_avail, expedite, dryrun, main_pc,
          cflags, compiles, objfiles, link, makefile_written, success>>

ordervars == <<tree, include_subdir, pc, srcfiles, cfiles,
               orderedsourcefiles, registry, graph, diagnostics>>
isovars == <<iso_srcfiles, iso_pc, iso_i, lines, idx, iso_ret>>
mainvars == <<fc, platform, toolchain, flopy_avail, expedite, dryrun>>
compilevars == <<main_pc, cflags, compiles, objfiles, link,
                 makefile_written, success>>

-----------------------------------------------------------------------------
(* Bounds *)

MaxFiles == 4        \* files of any kind in the source tree
MaxUnits == 3        \* Fortran units in the source tree
MaxScanFiles == 2    \* files in the list given to get_iso_c

-----------------------------------------------------------------------------
(* Python string primitives over character sequences *)

Range0(s) == {s[k] : k \in 1..Len(s)}

Lowers == <<"a","b","c","d","e","f","g","h","i","j","k","l","m",
            "n","o","p","q","r","s","t","u","v","w","x","y","z">>
Uppers == <<"A","B","C","D","E","F","G","H","I","J","K","L","M",
            "N","O","P","Q","R","S","T","U","V","W","X","Y","Z">>

\* the bytes and characters of the model; "0xE9" is a byte outside ASCII and
\* "0xFFFD" the replacement character that decoding puts in its place
Chars == Range0(Lowers) \cup Range0(Uppers)
           \cup {".", "/", " ", "\t", "\n", ",", ":", "_", "=", "!",
                 "0", "1", "9", "0xE9", "0xFFFD"}

\* str.lower() / str.upper(), one character at a time
LowerChar == [ch \in Chars |->
    IF \E k \in 1..Len(Uppers) : Uppers[k] = ch
    THEN Lowers[CHOOSE k \in 1..Len(Uppers) : Uppers[k] = ch]
    ELSE ch]

UpperChar == [ch \in Chars |->
    IF \E k \in 1..Len(Lowers) : Lowers[k] = ch
    THEN Uppers[CHOOSE k \in 1..Len(Lowers) : Lowers[k] = ch]
    ELSE ch]

Lower(s) == [k \in 1..Len(s) |-> LowerChar[s[k]]]
Upper(s) == [k \in 1..Len(s) |-> UpperChar[s[k]]]

EndsWith(s, suf) ==
    /\ Len(s) >= Len(suf)
    /\ SubSeq(s, Len(s) - Len(suf) + 1, Len(s)) = suf

\* os.path.join(path, name)
PathJoin(path, name) == path \o <<"/">> \o name

Min(S) == CHOOSE x \in S : \A y \in S : x <= y

\* F(v), with v evaluated once
With(v, F(_)) == CHOOSE r \in { F(x) : x \in {v} } : TRUE

Range(s) == Range0(s)

Reverse(s) == [k \in 1..Len(s) |-> s[Len(s) + 1 - k]]

\* position of x in the sequence s (0 when absent)
Pos(s, x) == IF \E k \in 1..Len(s) : s[k] = x
             THEN Min({k \in 1..Len(s) : s[k] = x})
             ELSE 0

-----------------------------------------------------------------------------
(* The source tree *)

srcdir_temp == <<".">>
SubDir == <<".", "/", "s">>

Modules == {"M1", "M2", "M3"}

ExtF   == <<".", "f">>
ExtF90 == <<".", "F", "9", "0">>
ExtC   == <<".", "c">>
ExtCpp == <<".", "C", "p", "p">>
ExtTxt == <<".", "t", "x", "t">>

\* a directory entry: where it is, whether it can be opened, and the module
\* names its text defines and uses
Entry(dir, name, readable, prov, req) ==
    [dir |-> dir, name |-> name, readable |-> readable,
     provides |-> prov, requires |-> req]

\* the files the i-th directory entry may be (its base name is the i-th
\* letter): Fortran, C and other files, in either letter case, readable or
\* not, in srcdir_temp or below it
EntryChoices(i) ==
    LET b == <<Lowers[i]>> IN
    { Entry(srcdir_temp, b \o ExtF, TRUE, {"M1"}, {}),
      Entry(srcdir_temp, b \o ExtF, TRUE, {"M1"}, {"M2"}),
      Entry(srcdir_temp, b \o ExtF, TRUE, {"M2"}, {"M1"}),
      Entry(srcdir_temp, b \o ExtF, FALSE, {"M1"}, {"M2"}),
      Entry(srcdir_temp, b \o ExtF90, TRUE, {}, {}),
      Entry(srcdir_temp, b \o ExtC, TRUE, {}, {}),
      Entry(srcdir_temp, b \o ExtCpp, TRUE, {}, {}),
      Entry(srcdir_temp, b \o ExtTxt, TRUE, {}, {}),
      Entry(SubDir, b \o ExtF, TRUE, {}, {}) }

\* the Fortran units the i-th directory entry may be: at most one module
\* defined, any set of modules used
UnitChoices(i) ==
    { Entry(srcdir_temp, <<Lowers[i]>> \o ExtF, TRUE, p, r) :
         p \in {{}} \cup {{m} : m \in Modules}, r \in SUBSET Modules }

\* module names carry no meaning: a tree is taken in the form where the
\* names come into use in the order M1, M2, M3
Mentioned(t) == UNION { t[k].provides \cup t[k].requires : k \in 1..Len(t) }
NamesInOrder(t) ==
    Mentioned(t) \in {{}, {"M1"}, {"M1", "M2"}, {"M1", "M2", "M3"}}

\* os.walk is top-down: the files of srcdir_temp come before those of a
\* subdirectory
WalkOrdered(t) ==
    \A i, j \in 1..Len(t) :
        (i < j /\ t[i].dir = SubDir) => t[j].dir = SubDir

-----------------------------------------------------------------------------------------------------------------------------------------------------
(* Unit Scanner (design 4.1): the provide / require sets of one unit.      *)
(* The engine names a unit by its index in the discovery-ordered list it   *)
(* is given.                                                               *)

\* the file of the tree t that the path f names
FileEntry(t, f) == CHOOSE e \in Range(t) : PathJoin(e.dir, e.name) = f

\* a faulty ScanUnit: a use of the unit's own module stays in the
\* required set
ScanUnitKeepSelf(t, f) ==
    LET e == FileEntry(t, f) IN
    IF e.readable THEN [provides |-> e.provides, requires |-> e.requires]
    ELSE [provides |-> {}, requires |-> {}]

\* the required set leaves out self-references (design 3); an unreadable
\* file provides and requires nothing
ScanUnit(t, f) ==
    LET e == FileEntry(t, f) IN
    IF e.readable
    THEN [provides |-> e.provides, requires |-> e.requires \ e.provides]
    ELSE [provides |-> {}, requires |-> {}]

ScanAll(t, srcs) == [u \in 1..Len(srcs) |-> ScanUnit(t, srcs[u])]

-----
(* Module Registry (design 4.2); 0 is "not found"                          *)

EmptyRegistry == [bind |-> [m \in Modules |-> 0], conflicts |-> {}]

\* a faulty register: the last binding wins
registerLastWins(reg, u, names) ==
    [bind |-> [m \in Modules |-> IF m \in names THEN u ELSE reg.bind[m]],
     conflicts |-> reg.conflicts \cup
                 { [name |-> m, first |-> reg.bind[m], second |-> u] :
                      m \in {x \in names : reg.bind[x] # 0 /\ reg.bind[x] # u} }]

\* register(unit, providedNames): the first binding is kept, a later one is
\* recorded as a conflict
register(reg, u, names) ==
    [bind |-> [m \in Modules |->
                 IF m \in names /\ reg.bind[m] = 0 THEN u ELSE reg.bind[m]],
     conflicts |-> reg.conflicts \cup
                 { [name |-> m, first |-> reg.bind[m], second |-> u] :
                      m \in {x \in names : reg.bind[x] # 0 /\ reg.bind[x] # u} }]

\* one sequential pass over the scan results, in discovery order
RECURSIVE RegisterUpTo(_, _)
RegisterUpTo(scan, k) ==
    IF k = 0 THEN EmptyRegistry
    ELSE register(RegisterUpTo(scan, k - 1), k, scan[k].provides)

resolve(reg, m) == reg.bind[m]

-----------------------------------------------------------------------------
(* Dependency Graph (design 4.3): edge <<u, v>> is "u requires a module    *)
(* that v provides", v must be compiled before u                           *)

Edges(scan, reg) ==
    { e \in (DOMAIN scan) \X (DOMAIN scan) :
        /\ e[2] # e[1]
        /\ \E m \in scan[e[1]].requires : resolve(reg, m) = e[2] }

\* pairs <<u, v>> with a path of one or more edges from u to v
RECURSIVE TransitiveClosure(_, _)
TransitiveClosure(R, n) ==
    With(R \cup { e \in (1..n) \X (1..n) :
                    \E b \in 1..n : <<e[1], b>> \in R /\ <<b, e[2]>> \in R },
         LAMBDA R2 : IF R2 = R THEN R ELSE TransitiveClosure(R2, n))

\* the strongly-connected component of every unit
Components(E, n) ==
    With(TransitiveClosure(E, n), LAMBDA R :
      [u \in 1..n |-> {u} \cup { v \in 1..n : <<u, v>> \in R /\ <<v, u>> \in R }])

-----------------------------------------------------------------------------
(* Orderer (design 4.3): Kahn's algorithm over the components; among the   *)
(* units whose component has no dependency left outside itself, the        *)
(* earliest-discovered one goes first, and its component goes with it, in  *)
(* discovery order.                                                        *)

\* the units a component depends on outside itself
External(E, scc) ==
    [u \in DOMAIN scc |->
        { v \in (DOMAIN scc) \ scc[u] : \E w \in scc[u] : <<w, v>> \in E }]

\* the members of S in increasing (discovery) order
SortedSeq(S, n) == SelectSeq([k \in 1..n |-> k], LAMBDA k : k \in S)

\* a faulty NextGroup: the unit goes alone, without its component
NextGroupAlone(scc, ext, done) ==
    {Min({ u \in (DOMAIN scc) \ done : ext[u] \subseteq done })}

\* the units emitted next: the component of the earliest-discovered unit
\* whose component has no dependency left outside itself
NextGroup(scc, ext, done) ==
    scc[Min({ u \in (DOMAIN scc) \ done : ext[u] \subseteq done })]

RECURSIVE Emit(_, _, _, _)
Emit(scc, ext, out, done) ==
    IF DOMAIN scc \subseteq done THEN out
    ELSE \* a unit whose own component is not emitted yet always exists
         With(NextGroup(scc, ext, done) \ done, LAMBDA group :
           With(<<out \o SortedSeq(group, Len(scc)), done \cup group>>, LAMBDA s :
             Emit(scc, ext, s[1], s[2])))

\* the engine's run over the discovery-ordered module-language units
Engine(t, srcs) ==
    With(ScanAll(t, srcs), LAMBDA scan :
    With(RegisterUpTo(scan, Len(srcs)), LAMBDA reg :
    With(Edges(scan, reg), LAMBDA E :
    With(Components(E, Len(srcs)), LAMBDA scc :
    With(External(E, scc), LAMBDA ext :
    With(Emit(scc, ext, <<>>, {}), LAMBDA ord :
        [order     |-> [k \in 1..Len(srcs) |-> srcs[ord[k]]],
         bind      |-> reg.bind,
         edges     |-> E,
         conflicts |-> reg.conflicts,
         cycles    |-> { scc[u] : u \in { x \in 1..Len(srcs) :
                                          Cardinality(scc[x]) > 1 } },
         unreadable |-> { u \in 1..Len(srcs) :
                           ~FileEntry(t, srcs[u]).readable }]))))))

\* the engine before any run
NoRun == [order |-> <<>>, bind |-> EmptyRegistry.bind, edges |-> {},
          conflicts |-> {}, cycles |-> {}, unreadable |-> {}]

\* dag.py order_source_files: the ordered module-language units, with the
\* record of the run
order_source_files(t, srcs) == Engine(t, srcs)

\* Secondary-Language Orderer (design 4.4): discovery order
order_c_source_files(cs) == cs

NoDiagnostics == [unreadable |-> {}, conflicts |-> {}, cycles |-> {}]

-----
(* pymake.py get_ordered_srcfiles *)

\* the os.walk loop: every file of srcdir_temp, and those of its
\* subdirectories when include_subdir is set
Walk(t, inc) ==
    LET kept == SelectSeq(t, LAMBDA e : inc \/ e.dir = srcdir_temp)
    IN  [k \in 1..Len(kept) |-> PathJoin(kept[k].dir, kept[k].name)]

IsFortranFile(f) ==
    LET l == Lower(f) IN
    \/ EndsWith(l, <<".", "f">>)
    \/ EndsWith(l, <<".", "f", "9", "0">>)
    \/ EndsWith(l, <<".", "f", "o", "r">>)
    \/ EndsWith(l, <<".", "f", "p", "p">>)

IsCFile(f) ==
    LET l == Lower(f) IN
    /\ ~IsFortranFile(f)
    /\ \/ EndsWith(l, <<".", "c">>)
       \/ EndsWith(l, <<".", "c", "p", "p">>)

\* a faulty bucket loop: insert(0, f) where the code has append(f)
SrcBucketPrepend(templist) == Reverse(SelectSeq(templist, IsFortranFile))
CBucketPrepend(templist) == Reverse(SelectSeq(templist, IsCFile))

\* srcfiles / cfiles after the loop over templist
SrcBucket(templist) == SelectSeq(templist, IsFortranFile)
CBucket(templist) == SelectSeq(templist, IsCFile)

\* faulty final assemblies: the C files first; = where the code has +=;
\* the Fortran files as they were discovered, without the ordering
AssembleCFirst(srcfileswithpath, cfileswithpath, ordered) ==
    (IF Len(cfileswithpath) > 0
       THEN order_c_source_files(cfileswithpath) ELSE <<>>)
    \o (IF Len(srcfileswithpath) > 0 THEN ordered ELSE <<>>)
AssembleOverwrite(srcfileswithpath, cfileswithpath, ordered) ==
    IF Len(cfileswithpath) > 0 THEN order_c_source_files(cfileswithpath)
    ELSE IF Len(srcfileswithpath) > 0 THEN ordered ELSE <<>>
AssembleUnordered(srcfileswithpath, cfileswithpath, ordered) ==
    srcfileswithpath
    \o (IF Len(cfileswithpath) > 0
       THEN order_c_source_files(cfileswithpath) ELSE <<>>)

\* orderedsourcefiles: the ordered Fortran files, then the ordered C files;
\* ordered is what order_source_files(srcfileswithpath) returns
Assemble(srcfileswithpath, cfileswithpath, ordered) ==
    (IF Len(srcfileswithpath) > 0 THEN ordered ELSE <<>>)
    \o (IF Len(cfileswithpath) > 0
       THEN order_c_source_files(cfileswithpath) ELSE <<>>)

\* the whole function: its locals, the engine's record and its result
get_ordered_srcfiles(t, inc) ==
    LET templist == Walk(t, inc)
        srcs     == SrcBucket(templist)
        cs       == CBucket(templist)
        run      == IF Len(srcs) > 0 THEN order_source_files(t, srcs) ELSE NoRun
    IN  [srcfiles |-> srcs,
         cfiles   |-> cs,
         engine   |-> run,
         orderedsourcefiles |-> Assemble(srcs, cs, run.order)]

-----
(* The ordering run *)

\* no link command yet
NoLink == [issued |-> FALSE, ran |-> FALSE, objfiles |-> <<>>, returncode |-> 0]

\* main is not called
MainIdle ==
    /\ fc = "gfortran"
    /\ platform = "linux"
    /\ toolchain = TRUE
    /\ flopy_avail = FALSE
    /\ expedite = FALSE
    /\ dryrun = FALSE
    /\ main_pc = "idle"
    /\ cflags = <<>>
    /\ compiles = <<>>
    /\ objfiles = <<>>
    /\ link = NoLink
    /\ makefile_written = FALSE
    /\ success = "none"

IsoIdle ==
    /\ iso_srcfiles = <<>>
    /\ iso_pc = "idle"
    /\ iso_i = 0
    /\ lines = <<>>
    /\ idx = 0
    /\ iso_ret = "none"

\* the temporary source directory is empty before initialize() copies the
\* sources into it; include_subdirs is main()'s argument
NotOrdered ==
    /\ tree = <<>>
    /\ pc = "staging"
    /\ srcfiles = <<>>
    /\ cfiles = <<>>
    /\ orderedsourcefiles = <<>>
    /\ registry = EmptyRegistry.bind
    /\ graph = {}
    /\ diagnostics = NoDiagnostics

InitOrder ==
    /\ NotOrdered
    /\ include_subdir \in BOOLEAN
    /\ IsoIdle
    /\ MainIdle

InitEngine ==
    /\ NotOrdered
    /\ include_subdir = FALSE
    /\ IsoIdle
    /\ MainIdle

\* initialize(): shutil.copytree puts one more file into the source tree
Stage(e, max) ==
    /\ pc = "staging"
    /\ Len(tree) < max
    /\ WalkOrdered(Append(tree, e))
    /\ tree' = Append(tree, e)
    /\ UNCHANGED <<include_subdir, pc, srcfiles, cfiles, orderedsourcefiles,
                   registry, graph, diagnostics>>
    /\ UNCHANGED isovars
    /\ UNCHANGED <<mainvars, compilevars>>

StageFile == \E e \in EntryChoices(Len(tree) + 1) : Stage(e, MaxFiles)

StageUnit ==
    \E e \in UnitChoices(Len(tree) + 1) :
        NamesInOrder(Append(tree, e)) /\ Stage(e, MaxUnits)

\* main(): srcfiles = get_ordered_srcfiles(srcdir_temp, include_subdirs)
GetOrderedSrcfiles ==
    /\ pc = "staging"
    /\ pc' = "ordered"
    /\ \E r \in {get_ordered_srcfiles(tree, include_subdir)} :
            /\ srcfiles' = r.srcfiles
            /\ cfiles' = r.cfiles
            /\ orderedsourcefiles' = r.orderedsourcefiles
            /\ registry' = r.engine.bind
            /\ graph' = r.engine.edges
            /\ diagnostics' = [unreadable |-> r.engine.unreadable,
                               conflicts |-> r.engine.conflicts,
                               cycles |-> r.engine.cycles]
    /\ UNCHANGED <<tree, include_subdir>>
    /\ UNCHANGED isovars
    /\ UNCHANGED <<mainvars, compilevars>>

\* the ordering of a source tree of any kind of files
NextOrder == StageFile \/ GetOrderedSrcfiles
SpecOrder == InitOrder /\ [][NextOrder]_vars

\* the ordering of a source tree of Fortran units
NextEngine == StageUnit \/ GetOrderedSrcfiles
SpecEngine == InitEngine /\ [][NextEngine]_vars

-----------------------------------------------------------------------------
(* pymake.py get_iso_c: Python's bytes / str operations *)

\* bytes.decode('ascii', 'replace')
Decode(data) ==
    [k \in 1..Len(data) |-> IF data[k] = "0xE9" THEN "0xFFFD" ELSE data[k]]

\* str.splitlines(), for text whose only line boundary is "\n"
RECURSIVE SplitLines(_)
SplitLines(text) ==
    IF text = <<>> THEN <<>>
    ELSE IF \E k \in 1..Len(text) : text[k] = "\n"
    THEN With(Min({ k \in 1..Len(text) : text[k] = "\n" }), LAMBDA k :
           <<SubSeq(text, 1, k - 1)>> \o SplitLines(SubSeq(text, k + 1, Len(text))))
    ELSE <<text>>

IsSpace(ch) == ch \in {" ", "\t"}

\* str.strip()
Strip(str) ==
    IF \A k \in 1..Len(str) : IsSpace(str[k]) THEN <<>>
    ELSE SubSeq(str, Min({ k \in 1..Len(str) : ~IsSpace(str[k]) }),
                     Len(str) + 1
                       - Min({ k \in 1..Len(str) : ~IsSpace(str[Len(str) + 1 - k]) }))

\* str.split(): the maximal runs of characters that are not white space
RECURSIVE Split(_)
Split(str) ==
    IF str = <<>> THEN <<>>
    ELSE IF IsSpace(str[1]) THEN Split(Tail(str))
    ELSE With(Min({ k \in 1..Len(str) : k = Len(str) \/ IsSpace(str[k + 1]) }),
              LAMBDA k : <<SubSeq(str, 1, k)>> \o Split(SubSeq(str, k + 1, Len(str))))

\* str.split(',')[0]
SplitComma0(str) ==
    IF \E k \in 1..Len(str) : str[k] = ","
    THEN SubSeq(str, 1, Min({ k \in 1..Len(str) : str[k] = "," }) - 1)
    ELSE str

UseKeyword == <<"U", "S", "E">>
ISO_C_BINDING == <<"I", "S", "O", "_", "C", "_", "B", "I", "N", "D", "I", "N", "G">>

\* the body of the loop over the lines of one file: what one line does
ScanLine(line) ==
    With(Split(Strip(line)), LAMBDA linelist :
      IF Len(linelist) = 0 THEN "continue"
      ELSE IF Upper(linelist[1]) = UseKeyword
      THEN IF Len(linelist) < 2 THEN "IndexError"   \* linelist[1] of ['USE']
           ELSE IF ISO_C_BINDING = Upper(SplitComma0(linelist[2]))
           THEN "return True"
           ELSE "continue"
      ELSE "continue")

\* compile_with_gnu, compile_with_mac_ifort: the C compiler flags of a
\* production build; -D_UF when ISO_C_BINDING is not used
CFlags(use_iso_c) ==
    IF ~use_iso_c THEN <<"-O3", "-D_UF">> ELSE <<"-O3">>

\* a faulty OnOpenError: the scan gives up at a file it cannot open
OnOpenErrorReturn == "returned"

\* except: print(...); continue
OnOpenError == "for srcfile"

-----------------------------------------------------------------------------
(* The files get_iso_c may be given *)

Sp == <<" ">>
Nl == <<"\n">>

LineBlank     == <<" ", "\t">>
LineBareUse   == Sp \o Lower(UseKeyword)
LineUseIso    == UseKeyword \o Sp \o ISO_C_BINDING
LineUseOnly   == <<"\t">> \o Lower(UseKeyword) \o Sp \o Lower(ISO_C_BINDING)
                   \o <<",">> \o Sp \o <<"o", "n", "l", "y", ":", "c">>
LineUseOther  == Lower(UseKeyword) \o Sp \o <<"m">>
LineComment   == <<"!", " ", "0xE9">>
LineUseIntrinsic ==
    Lower(UseKeyword) \o <<",", " ", "i", "n", "t", "r", "i", "n", "s", "i", "c",
                           " ", ":", ":", " ">> \o Lower(ISO_C_BINDING)

ScanLines == {LineBlank, LineBareUse, LineUseIso, LineUseOnly, LineUseOther,
              LineComment, LineUseIntrinsic}

\* the lines after which the scan goes on to the next line
QuietLines == {LineBlank, LineUseOther, LineComment}

\* the text of a file: no line, one line, or two lines
FileData ==
    {<<>>} \cup { l \o Nl : l \in ScanLines }
           \cup { a \o Nl \o b \o Nl : a \in QuietLines, b \in ScanLines }

ScanFileChoices ==
    { [readable |-> FALSE, data |-> LineUseIso \o Nl] }
    \cup { [readable |-> TRUE, data |-> d] : d \in FileData }

-----------------------------------------------------------------------------
(* The run of get_iso_c *)

OrderIdle ==
    /\ tree = <<>>
    /\ include_subdir = FALSE
    /\ pc = "idle"
    /\ srcfiles = <<>>
    /\ cfiles = <<>>
    /\ orderedsourcefiles = <<>>
    /\ registry = EmptyRegistry.bind
    /\ graph = {}
    /\ diagnostics = NoDiagnostics

InitScan ==
    /\ OrderIdle
    /\ MainIdle
    /\ iso_srcfiles = <<>>
    /\ iso_pc = "caller"
    /\ iso_i = 0
    /\ lines = <<>>
    /\ idx = 0
    /\ iso_ret = "none"

\* the caller puts one more file into the list it will pass
ListFile ==
    /\ iso_pc = "caller"
    /\ Len(iso_srcfiles) < MaxScanFiles
    /\ \E f \in ScanFileChoices : iso_srcfiles' = Append(iso_srcfiles, f)
    /\ UNCHANGED <<iso_pc, iso_i, lines, idx, iso_ret>>
    /\ UNCHANGED ordervars
    /\ UNCHANGED <<mainvars, compilevars>>

\* use_iso_c = get_iso_c(srcfiles): the call
CallGetIsoC ==
    /\ iso_pc = "caller"
    /\ iso_pc' = "for srcfile"
    /\ iso_i' = 0
    /\ UNCHANGED <<iso_srcfiles, lines, idx, iso_ret>>
    /\ UNCHANGED ordervars
    /\ UNCHANGED <<mainvars, compilevars>>

\* for srcfile in srcfiles: open() succeeds, the file is read and decoded
OpenFile ==
    /\ iso_pc = "for srcfile"
    /\ iso_i < Len(iso_srcfiles)
    /\ iso_srcfiles[iso_i + 1].readable
    /\ iso_i' = iso_i + 1
    /\ lines' = SplitLines(Decode(iso_srcfiles[iso_i + 1].data))
    /\ idx' = 0
    /\ iso_pc' = "for line"
    /\ UNCHANGED <<iso_srcfiles, iso_ret>>
    /\ UNCHANGED ordervars
    /\ UNCHANGED <<mainvars, compilevars>>

\* for srcfile in srcfiles: open() raises
OpenFails ==
    /\ iso_pc = "for srcfile"
    /\ iso_i < Len(iso_srcfiles)
    /\ ~iso_srcfiles[iso_i + 1].readable
    /\ iso_i' = iso_i + 1
    /\ iso_pc' = OnOpenError
    /\ iso_ret' = IF OnOpenError = "returned" THEN FALSE ELSE iso_ret
    /\ UNCHANGED <<iso_srcfiles, lines, idx>>
    /\ UNCHANGED ordervars
    /\ UNCHANGED <<mainvars, compilevars>>

\* one line of the open file
ScanNextLine ==
    /\ iso_pc = "for line"
    /\ idx < Len(lines)
    /\ idx' = idx + 1
    /\ \E what \in {ScanLine(lines[idx + 1])} :
          /\ iso_pc' = CASE what = "continue"    -> "for line"
                          [] what = "return True" -> "returned"
                          [] what = "IndexError"  -> "raised"
          /\ iso_ret' = IF what = "return True" THEN TRUE ELSE iso_ret
    /\ UNCHANGED <<iso_srcfiles, iso_i, lines>>
    /\ UNCHANGED ordervars
    /\ UNCHANGED <<mainvars, compilevars>>

\* the lines of the open file are exhausted
EndOfFile ==
    /\ iso_pc = "for line"
    /\ idx = Len(lines)
    /\ iso_pc' = "for srcfile"
    /\ UNCHANGED <<iso_srcfiles, iso_i, lines, idx, iso_ret>>
    /\ UNCHANGED ordervars
    /\ UNCHANGED <<mainvars, compilevars>>

\* the files are exhausted: return False
ReturnFalse ==
    /\ iso_pc = "for srcfile"
    /\ iso_i = Len(iso_srcfiles)
    /\ iso_pc' = "returned"
    /\ iso_ret' = FALSE
    /\ UNCHANGED <<iso_srcfiles, iso_i, lines, idx>>
    /\ UNCHANGED ordervars
    /\ UNCHANGED <<mainvars, compilevars>>

\* the caller: use_iso_c = get_iso_c(srcfiles) has returned;
\* if not use_iso_c: cflags.append('-D_UF')
AppendDUF ==
    /\ iso_pc = "returned"
    /\ cflags = <<>>
    /\ cflags' = CFlags(iso_ret)
    /\ UNCHANGED <<main_pc, compiles, objfiles, link, makefile_written, success>>
    /\ UNCHANGED <<ordervars, isovars, mainvars>>

NextScan ==
    \/ AppendDUF
    \/ ListFile
    \/ CallGetIsoC
    \/ OpenFile
    \/ OpenFails
    \/ ScanNextLine
    \/ EndOfFile
    \/ ReturnFalse

SpecScan == InitScan /\ [][NextScan]_vars

-----------------------------------------------------------------------------
(* What the claims speak of, read off the source tree and the state.  A    *)
(* unit is named here by its place in the tree, its discovery order.       *)

TPath(k) == PathJoin(tree[k].dir, tree[k].name)

Walked(k) == include_subdir \/ tree[k].dir = srcdir_temp

\* the module-language and the secondary-language units
ModUnits == { k \in 1..Len(tree) : Walked(k) /\ IsFortranFile(TPath(k)) }
SecUnits == { k \in 1..Len(tree) : Walked(k) /\ IsCFile(TPath(k)) }

\* the module names the text of unit k defines, and those it uses
Defines(k) == IF tree[k].readable THEN tree[k].provides ELSE {}
Uses(k) == IF tree[k].readable THEN tree[k].requires ELSE {}

\* the units defining the module m
Definers(m) == { k \in ModUnits : m \in Defines(k) }

\* the unit the registry resolves m to (0: not found)
Resolved(m) ==
    IF registry[m] = 0 THEN 0
    ELSE CHOOSE k \in 1..Len(tree) : TPath(k) = srcfiles[registry[m]]

\* U requires a module that the registry resolves to V, U # V
DepEdges ==
    { e \in ModUnits \X ModUnits :
        e[1] # e[2] /\ \E m \in Uses(e[1]) \ Defines(e[1]) : Resolved(m) = e[2] }

\* the place of unit k in the returned list (0: absent)
OutPos(k) == Pos(orderedsourcefiles, TPath(k))

\* the strongly-connected component of every unit of the graph E
SCCs(E) == Components(E, Len(tree))

\* u, discovered before v, comes after v in the list only for a reason: v
\* went with a member of its cycle discovered before u, or the component of
\* u still had a dependency outside itself when v's went
Deferred(E, scc, u, v) ==
    \/ Min(scc[v]) < u
    \/ \E e \in E : /\ e[1] \in scc[u]
                     /\ e[2] \notin scc[u]
                     /\ OutPos(e[2]) >= OutPos(Min(scc[v]))

\* the engine's units, as places in the tree
UnitOf(i) == CHOOSE k \in 1..Len(tree) : TPath(k) = srcfiles[i]

-----------------------------------------------------------------------------
(* C1  Dependency satisfaction: when unit U requires a module that the     *)
(* registry resolves to another unit V, and U and V are not in a common    *)
(* cycle, V comes strictly before U in the list get_ordered_srcfiles       *)
(* returns.                                                                *)
C1_DependencySatisfaction ==
    pc = "ordered" =>
      With(DepEdges, LAMBDA E : With(SCCs(E), LAMBDA scc :
        \A e \in E :
            e[2] \notin scc[e[1]]
              => /\ OutPos(e[2]) > 0
                 /\ OutPos(e[2]) < OutPos(e[1])))

\* a chain discovered against its dependencies: the first file requires the
\* module of the second, the second that of the third; the list is reversed
C1_Witness ==
    /\ pc = "ordered"
    /\ Len(tree) = 3
    /\ DepEdges = {<<1, 2>>, <<2, 3>>}
    /\ orderedsourcefiles = <<TPath(3), TPath(2), TPath(1)>>

-----------------------------------------------------------------------------
(* C2  Combined output: the returned list is the ordered module-language   *)
(* units followed by the ordered secondary-language units; no C/C++ file   *)
(* precedes a Fortran file.                                                *)
C2_CombinedOutput ==
    pc = "ordered" =>
      With(Cardinality(ModUnits), LAMBDA nf :
        /\ Len(orderedsourcefiles) = nf + Cardinality(SecUnits)
        /\ \A k \in 1..Len(orderedsourcefiles) :
              IF k <= nf
              THEN orderedsourcefiles[k] \in { TPath(u) : u \in ModUnits }
              ELSE orderedsourcefiles[k] \in { TPath(u) : u \in SecUnits }
        /\ \A u \in ModUnits, c \in SecUnits : OutPos(u) < OutPos(c))

\* a C file discovered before a Fortran file, and listed after it
C2_Witness ==
    /\ pc = "ordered"
    /\ \E c \in SecUnits, u \in ModUnits : c < u /\ OutPos(u) < OutPos(c)

-----------------------------------------------------------------------------
(* C3  Tie-breaking by discovery order: a unit discovered before another   *)
(* comes after it in the list only when it was not free to go (Deferred);  *)
(* units with no edge among them are listed in discovery order.            *)
C3_DiscoveryTieBreak ==
    pc = "ordered" =>
      With(DepEdges, LAMBDA E : With(SCCs(E), LAMBDA scc :
        /\ \A u, v \in ModUnits :
              (u < v /\ OutPos(v) < OutPos(u)) => Deferred(E, scc, u, v)
        /\ E = {} => \A u, v \in ModUnits : u < v => OutPos(u) < OutPos(v)))

\* the first file waits for the third; the second, free, goes first
C3_Witness ==
    /\ pc = "ordered"
    /\ Len(tree) = 3
    /\ DepEdges = {<<1, 3>>}
    /\ orderedsourcefiles = <<TPath(2), TPath(3), TPath(1)>>

-----------------------------------------------------------------------------
(* C4  Cycle containment: the members of a strongly-connected component    *)
(* of more than one unit are listed next to each other, in discovery       *)
(* order, where its earliest member is due; the CyclicDependency           *)
(* diagnostics are exactly these components, one each; a unit outside      *)
(* that requires a module of a member comes after that member.             *)
C4_CycleContainment ==
    pc = "ordered" =>
      With(DepEdges, LAMBDA E : With(SCCs(E), LAMBDA scc :
        /\ { { UnitOf(i) : i \in c } : c \in diagnostics.cycles }
              = { scc[u] : u \in { x \in ModUnits : Cardinality(scc[x]) > 1 } }
        /\ Cardinality(diagnostics.cycles)
              = Cardinality({ scc[u] : u \in { x \in ModUnits :
                                                  Cardinality(scc[x]) > 1 } })
        /\ \A u \in ModUnits :
              Cardinality(scc[u]) > 1 =>
                /\ OutPos(u) > 0
                /\ OutPos(u) = OutPos(Min(scc[u]))
                               + Cardinality({ w \in scc[u] : w < u })
                /\ \A x \in ModUnits \ scc[u] :
                      (Min(scc[u]) < x /\ OutPos(x) < OutPos(Min(scc[u])))
                        => Deferred(E, scc, Min(scc[u]), x)
                /\ \A x \in ModUnits \ scc[u] :
                      <<x, u>> \in E => OutPos(u) < OutPos(x)))

\* A <-> B with a free unit discovered between them, or with a unit that
\* requires A discovered first: A and B adjacent, one diagnostic naming them
C4_Witness ==
    /\ pc = "ordered"
    /\ Len(tree) = 3
    /\ DepEdges = {<<1, 2>>, <<2, 3>>, <<3, 2>>}
    /\ orderedsourcefiles = <<TPath(2), TPath(3), TPath(1)>>
    /\ diagnostics.cycles = {{2, 3}}

-----------------------------------------------------------------------------
(* C5  Definition conflict, first seen wins: every module name resolves to *)
(* the first-discovered unit that defines it (to none when no unit does);  *)
(* every later definer is reported in one DefinitionConflict naming the    *)
(* first definer and itself, so two definers give exactly one; the edges   *)
(* of the graph point to first definers only.                              *)
C5_FirstSeenWins ==
    pc = "ordered" =>
      /\ \A m \in Modules :
            With(Definers(m), LAMBDA D :
              /\ Resolved(m) = IF D = {} THEN 0 ELSE Min(D)
              /\ { <<UnitOf(c.first), UnitOf(c.second)>> :
                     c \in { d \in diagnostics.conflicts : d.name = m } }
                   = IF D = {} THEN {}
                     ELSE { <<Min(D), k>> : k \in D \ {Min(D)} }
              /\ Cardinality(D) = 2 =>
                   Cardinality({ d \in diagnostics.conflicts : d.name = m }) = 1)
      /\ \A e \in graph :
            \E m \in Uses(UnitOf(e[1])) :
                Definers(m) # {} /\ Min(Definers(m)) = UnitOf(e[2])

\* the second and the third file both define the module the first one uses
C5_Witness ==
    /\ pc = "ordered"
    /\ Len(tree) = 3
    /\ Uses(1) = {"M1"}
    /\ Definers("M1") = {2, 3}
    /\ registry["M1"] = 2
    /\ graph = {<<1, 2>>}
    /\ diagnostics.conflicts = {[name |-> "M1", first |-> 2, second |-> 3]}
    /\ orderedsourcefiles = <<TPath(2), TPath(1), TPath(3)>>

-----------------------------------------------------------------------------
(* C6  No self-edges: the graph has no edge from a unit to itself; a use   *)
(* of a module the unit itself defines gives no edge at all; every         *)
(* reported cycle has more than one member; the list is the one returned   *)
(* for the same tree with the self-uses taken out.                         *)
WithoutSelfUse(t) ==
    [k \in 1..Len(t) |->
        [t[k] EXCEPT !.requires = t[k].requires \ t[k].provides]]

C6_NoSelfEdges ==
    pc = "ordered" =>
      /\ \A e \in graph : e[1] # e[2]
      /\ \A e \in graph :
            \E m \in Uses(UnitOf(e[1])) \ Defines(UnitOf(e[1])) :
                Resolved(m) = UnitOf(e[2])
      /\ \A c \in diagnostics.cycles : Cardinality(c) > 1
      /\ orderedsourcefiles
           = get_ordered_srcfiles(WithoutSelfUse(tree),
                                  include_subdir).orderedsourcefiles

\* a unit uses its own module, which an earlier unit defined first
C6_Witness ==
    /\ pc = "ordered"
    /\ Len(tree) = 2
    /\ Defines(1) = {"M1"}
    /\ Defines(2) = {"M1"}
    /\ Uses(2) = {"M1"}
    /\ graph = {}
    /\ diagnostics.cycles = {}
    /\ orderedsourcefiles = <<TPath(1), TPath(2)>>

-----------------------------------------------------------------------------
(* C7  Secondary-language pass-through: the C/C++ files of the returned    *)
(* list are in discovery order, whatever the Fortran files hold.           *)
C7_SecondaryPassThrough ==
    pc = "ordered" =>
      SelectSeq(orderedsourcefiles, IsCFile)
        = SelectSeq(Walk(tree, include_subdir), IsCFile)

\* two C/C++ files discovered around Fortran files that form a cycle
C7_Witness ==
    /\ pc = "ordered"
    /\ Cardinality(SecUnits) = 2
    /\ diagnostics.cycles # {}
    /\ \E c \in SecUnits, u \in ModUnits : c < u
    /\ \E c \in SecUnits, u \in ModUnits : u < c

-----------------------------------------------------------------------------
(* C8  The ordering always completes with a full order: from every source  *)
(* tree get_ordered_srcfiles returns, and its list holds every Fortran and *)
(* C/C++ file of the walk exactly once.                                    *)
\* the list out holds every Fortran and C/C++ file of the walk exactly once
FullOrder(out) ==
    /\ \A k \in ModUnits \cup SecUnits :
          Cardinality({ p \in 1..Len(out) : out[p] = TPath(k) }) = 1
    /\ \A p \in 1..Len(out) :
          \E k \in ModUnits \cup SecUnits : out[p] = TPath(k)

C8_FullOrder ==
    /\ pc = "staging" =>
          FullOrder(get_ordered_srcfiles(tree, include_subdir).orderedsourcefiles)
    /\ pc = "ordered" => FullOrder(orderedsourcefiles)

\* the tree holds a cycle, an unreadable file and a C file; all four files
\* are listed
C8_Witness ==
    /\ pc = "ordered"
    /\ diagnostics.cycles # {}
    /\ diagnostics.unreadable # {}
    /\ Cardinality(SecUnits) = 1
    /\ Len(orderedsourcefiles) = 4

-----------------------------------------------------------------------------
(* What a call of get_iso_c comes to *)

\* how the call ended: "running" while it has not
Outcome ==
    CASE iso_pc = "raised" -> "IndexError"
      [] iso_pc = "returned" /\ iso_ret = TRUE -> "return True"
      [] iso_pc = "returned" /\ iso_ret = FALSE -> "return False"
      [] OTHER -> "running"

\* what the lines ls of one file do from line k on: the first line that
\* does not go on to the next decides; "continue" when none does
RECURSIVE LinesFrom(_, _)
LinesFrom(ls, k) ==
    IF k > Len(ls) THEN "continue"
    ELSE With(ScanLine(ls[k]), LAMBDA what :
           IF what = "continue" THEN LinesFrom(ls, k + 1) ELSE what)

\* what scanning the files fs, every one of which opens, comes to
RECURSIVE ScanOfReadable(_)
ScanOfReadable(fs) ==
    IF fs = <<>> THEN "return False"
    ELSE With(LinesFrom(SplitLines(Decode(Head(fs).data)), 1), LAMBDA what :
           IF what = "continue" THEN ScanOfReadable(Tail(fs)) ELSE what)

-----------------------------------------------------------------------------
(* C9  Unreadable source is recovered locally: a file of the list that     *)
(* cannot be opened ends nothing (the call neither returns nor raises at   *)
(* it), False is returned only after every file of the list was taken, and *)
(* the call comes to what it comes to for the readable files alone, in the *)
(* same order.                                                             *)
C9_UnreadableRecovered ==
    /\ Outcome # "running" =>
          Outcome = ScanOfReadable(SelectSeq(iso_srcfiles, LAMBDA f : f.readable))
    /\ Outcome \in {"return True", "IndexError"} => iso_srcfiles[iso_i].readable
    /\ Outcome = "return False" => iso_i = Len(iso_srcfiles)

\* a file that cannot be opened, then a readable one using ISO_C_BINDING
C9_Witness ==
    /\ Len(iso_srcfiles) = 2
    /\ ~iso_srcfiles[1].readable
    /\ iso_srcfiles[2].readable
    /\ iso_i = 2
    /\ Outcome = "return True"

-----------------------------------------------------------------------------
(* C10  Tolerant scanning never fails the run: get_iso_c never raises,     *)
(* whatever the lines of a readable file are; a line whose only token is   *)
(* USE is passed over and the scan goes on to the next line.               *)
C10_NeverRaises == iso_pc # "raised"

-----------------------------------------------------------------------------
(* What a Fortran compiler takes for a use of ISO_C_BINDING *)

IsPrefix(p, str) == Len(p) <= Len(str) /\ SubSeq(str, 1, Len(p)) = p

\* the statement in upper case, its blanks taken out
Squeeze(line) == SelectSeq(Upper(line), LAMBDA ch : ~IsSpace(ch))

\* USE ISO_C_BINDING, with or without ", INTRINSIC ::" and an only-list
NamesIsoCBinding(line) ==
    With(Squeeze(line), LAMBDA st :
      \E head \in {UseKeyword,
                    UseKeyword \o <<":", ":">>,
                    UseKeyword \o <<",", "I", "N", "T", "R", "I", "N", "S", "I", "C",
                                    ":", ":">>} :
         /\ IsPrefix(head \o ISO_C_BINDING, st)
         /\ \/ Len(st) = Len(head) + Len(ISO_C_BINDING)
            \/ st[Len(head) + Len(ISO_C_BINDING) + 1] = ",")

\* the file f can be read and a line of it uses ISO_C_BINDING
UsesIsoCBinding(f) ==
    /\ f.readable
    /\ \E l \in Range(SplitLines(Decode(f.data))) : NamesIsoCBinding(l)

-----------------------------------------------------------------------------
(* C11  The intrinsic-module fact drives the C flag: once the C flags are  *)
(* set, -D_UF is among them if and only if no file of the list has a use   *)
(* statement naming ISO_C_BINDING, in any letter case, with or without an  *)
(* only-list, wherever the file is in the list.                            *)
C11_FlagIffNoIsoCBinding ==
    cflags # <<>> =>
      ("-D_UF" \in Range(cflags)
         <=> ~\E k \in 1..Len(iso_srcfiles) : UsesIsoCBinding(iso_srcfiles[k]))

-----------------------------------------------------------------------------
(* pymake.py main and the compile functions: the files of a build *)

MaxBuildFiles == 3   \* files in the source tree of a gfortran build
MaxMainFiles == 1    \* files in the source tree of a build by any compiler

\* modification times: every source file has SrcMTime, an object file left
\* by an earlier build has one of ObjMTimes, one written by this build Now
SrcMTime == 2
ObjMTimes == 1..3
Now == 4
NoObject == 0        \* os.path.exists(objfile) is False
Unread == -1         \* out_of_date was not called

\* a source file with its text
BuildEntry(dir, name, prov, req, data) ==
    [dir |-> dir, name |-> name, readable |-> TRUE,
     provides |-> prov, requires |-> req, data |-> data]

\* the files a build may find: a.f uses the module of b.f; b.f uses
\* ISO_C_BINDING; a.c shares its base name with a.f, and so does s/a.f;
\* the extension of c.Cpp is not in lower case; d.f has a line "use"
BuildChoices ==
    { BuildEntry(srcdir_temp, <<"a">> \o ExtF, {}, {"M1"}, LineUseOther \o Nl),
      BuildEntry(srcdir_temp, <<"b">> \o ExtF, {"M1"}, {}, LineUseOnly \o Nl),
      BuildEntry(srcdir_temp, <<"a">> \o ExtC, {}, {}, LineBlank \o Nl),
      BuildEntry(srcdir_temp, <<"c">> \o ExtCpp, {}, {}, LineBlank \o Nl),
      BuildEntry(SubDir, <<"a">> \o ExtF, {}, {}, LineComment \o Nl),
      BuildEntry(srcdir_temp, <<"d">> \o ExtF, {}, {}, LineBareUse \o Nl) }

\* a directory holds a name once
NewPath(t, e) ==
    \A k \in 1..Len(t) : PathJoin(t[k].dir, t[k].name) # PathJoin(e.dir, e.name)

-----------------------------------------------------------------------------
(* Python's os.path on "/"-separated paths *)

Max(S) == CHOOSE x \in S : \A y \in S : x >= y

\* the index of the last "/" of p, 0 when it has none
LastSep(p) ==
    IF \E k \in 1..Len(p) : p[k] = "/"
    THEN Max({ k \in 1..Len(p) : p[k] = "/" }) ELSE 0

\* os.path.splitext(p)[0]: the last dot of the last component starts the
\* extension, unless the component begins with it
SplitextRoot(p) ==
    With({ k \in (LastSep(p) + 2)..Len(p) : p[k] = "." }, LAMBDA dots :
      IF dots = {} THEN p ELSE SubSeq(p, 1, Max(dots) - 1))

\* str.split(os.path.sep)[-1]
LastComponent(p) == SubSeq(p, LastSep(p) + 1, Len(p))

objdir_temp == <<".", "/", "o">>

\* objfile = os.path.join(objdir_temp, srcname + '.o')
ObjFile(srcfile) ==
    PathJoin(objdir_temp, LastComponent(SplitextRoot(srcfile)) \o <<".", "o">>)

-----------------------------------------------------------------------------
(* pymake.py get_iso_c, out_of_date and the command of one source file *)

\* get_iso_c(srcfiles), the files being those of the tree t: a file that
\* does not open is passed over, the others are scanned in their order
get_iso_c(t, srcs) ==
    ScanOfReadable(SelectSeq([k \in 1..Len(srcs) |-> FileEntry(t, srcs[k])],
                             LAMBDA f : f.readable))

\* a faulty out_of_date: t1 >= t2 where the code has t1 > t2
out_of_date_ge(t2, t1) ==
    IF t1 # NoObject THEN ~(t1 >= t2) ELSE TRUE

\* out_of_date(srcfile, objfile): t2 is the modification time of the source
\* file, t1 that of the object file (NoObject: there is none)
out_of_date(t2, t1) ==
    IF t1 # NoObject THEN ~(t1 > t2) ELSE TRUE

\* the Fortran compiler and its flags (production build)
FcName == IF fc = "gfortran" THEN "gfortran" ELSE "ifort"
CompileFlags ==
    IF fc = "gfortran" THEN <<"-O2", "-fbacktrace">>
    ELSE <<"-O2", "-no-heap-arrays", "-fpe0", "-traceback">>
cc == "gcc"

\* srcfile.endswith('.c') or srcfile.endswith('.cpp')
IsCSource(srcfile) ==
    EndsWith(srcfile, <<".", "c">>) \/ EndsWith(srcfile, <<".", "c", "p", "p">>)

\* the modification time of objfile as the build so far leaves it: written
\* by a compile of this build, or as it was seen, or not seen yet (Unread)
RECURSIVE SeenObject(_, _)
SeenObject(log, objfile) ==
    IF log = <<>> THEN Unread
    ELSE With(log[Len(log)], LAMBDA e :
           IF e.objfile # objfile THEN SeenObject(SubSeq(log, 1, Len(log) - 1), objfile)
           ELSE IF e.ran /\ e.returncode = 0 THEN Now
           ELSE IF e.objstate # Unread THEN e.objstate
           ELSE SeenObject(SubSeq(log, 1, Len(log) - 1), objfile))

\* the states the object file may be found in
ObjStates(log, objfile) ==
    IF SeenObject(log, objfile) # Unread THEN {SeenObject(log, objfile)}
    ELSE {NoObject} \cup ObjMTimes

\* a faulty SaveObject: insert(0, objfile) where the code has append
SaveObjectFirst(objs, objfile) == <<objfile>> \o objs

\* objfiles.append(objfile)
SaveObject(objs, objfile) == Append(objs, objfile)

\* a faulty OnReturnCode: the return code of the process is not looked at
OnReturnCodeGoOn(rc) == "go on"

\* if proc.returncode != 0: ... return proc.returncode
OnReturnCode(rc) == IF rc # 0 THEN "return" ELSE "go on"

\* the return codes a process may end with
ReturnCodes == {0, 1}

\* subprocess.Popen(cmdlist, shell=shellflg) and proc.communicate(), when run
\* is set: how it ends, and the return code.  Without the program, Popen
\* raises; under shell=True (win32, compile_with_gnu) the shell exits with a
\* code that is not 0
Popen(run) ==
    IF ~run THEN {<<"not run", 0>>}
    ELSE IF toolchain THEN { <<"exit", rc>> : rc \in ReturnCodes }
    ELSE IF platform = "win32" /\ fc = "gfortran"
    THEN { <<"exit", rc>> : rc \in ReturnCodes \ {0} }
    ELSE {<<"OSError", 0>>}

-----------------------------------------------------------------------------
(* The run of main: initialize, get_ordered_srcfiles, then one of the      *)
(* compile functions                                                       *)

NotCompiled ==
    /\ main_pc = "main"
    /\ cflags = <<>>
    /\ compiles = <<>>
    /\ objfiles = <<>>
    /\ link = NoLink
    /\ makefile_written = FALSE
    /\ success = "none"

\* main(..., fc='gfortran', ...) where gfortran is installed
InitGnu ==
    /\ NotOrdered
    /\ include_subdir \in BOOLEAN
    /\ IsoIdle
    /\ fc = "gfortran"
    /\ platform = "linux"
    /\ toolchain = TRUE
    /\ flopy_avail = FALSE
    /\ expedite \in BOOLEAN
    /\ dryrun \in BOOLEAN
    /\ NotCompiled

\* main with any compiler, on any platform, the compiler installed or not
InitMain ==
    /\ NotOrdered
    /\ include_subdir = FALSE
    /\ IsoIdle
    /\ fc \in {"gfortran", "ifort", "pgf90"}
    /\ platform \in {"linux", "darwin", "win32"}
    /\ toolchain \in BOOLEAN
    /\ flopy_avail \in BOOLEAN
    /\ expedite = FALSE
    /\ dryrun \in BOOLEAN
    /\ NotCompiled

StageBuildFile ==
    \E e \in BuildChoices : NewPath(tree, e) /\ Stage(e, MaxBuildFiles)

StageMainFile ==
    \E e \in BuildChoices : NewPath(tree, e) /\ Stage(e, MaxMainFiles)

\* the entry of compile_with_gnu / compile_with_mac_ifort up to the loop
\* over srcfiles: the flags; probe tells whether flag_available runs
\* gfortran before (Popen raises when there is no such program)
CompileEntry(probe) ==
    /\ pc = "ordered"
    /\ main_pc = "main"
    /\ \E use_iso_c \in {IF probe /\ ~toolchain THEN "OSError"
                          ELSE get_iso_c(tree, orderedsourcefiles)} :
          IF use_iso_c \in {"OSError", "IndexError"}
          THEN /\ main_pc' = "raised"
               /\ cflags' = cflags
          ELSE /\ main_pc' = "for srcfile"
               /\ cflags' = CFlags(use_iso_c = "return True")
    /\ UNCHANGED <<compiles, objfiles, link, makefile_written, success>>
    /\ UNCHANGED <<ordervars, isovars, mainvars>>

\* main: if fc == 'gfortran': success = compile_with_gnu(...)
CompileWithGnu ==
    /\ fc = "gfortran"
    /\ CompileEntry(platform # "win32")

\* main: elif fc == 'ifort': if platform.lower() == 'darwin':
\* success = compile_with_mac_ifort(...)
CompileWithMacIfort ==
    /\ fc = "ifort"
    /\ platform = "darwin"
    /\ CompileEntry(FALSE)

\* the command of srcfile, before it is run
Command(srcfile) ==
    [srcfile |-> srcfile,
     compiler |-> IF IsCSource(srcfile) THEN cc ELSE FcName,
     flags |-> IF IsCSource(srcfile) THEN cflags ELSE CompileFlags,
     objfile |-> ObjFile(srcfile)]

\* one turn of the loop over srcfiles: the command, the check of the
\* object file when expedite is set, the compile, objfiles.append
CompileUnit ==
    /\ main_pc = "for srcfile"
    /\ Len(compiles) < Len(orderedsourcefiles)
    /\ \E cmd \in {Command(orderedsourcefiles[Len(compiles) + 1])} :
       \E t1 \in IF expedite THEN ObjStates(compiles, cmd.objfile) ELSE {Unread} :
       \E compilefile \in {IF expedite THEN out_of_date(SrcMTime, t1) ELSE TRUE} :
       \E proc \in Popen(compilefile /\ ~dryrun) :
       \E rc \in {proc[2]} :
          IF proc[1] = "OSError"
          THEN /\ main_pc' = "raised"
               /\ UNCHANGED <<compiles, objfiles, success>>
          ELSE /\ compiles' = Append(compiles,
                     [srcfile |-> cmd.srcfile, compiler |-> cmd.compiler,
                      flags |-> cmd.flags, objfile |-> cmd.objfile,
                      objstate |-> t1, compilefile |-> compilefile,
                      ran |-> compilefile /\ ~dryrun, returncode |-> rc])
               /\ IF OnReturnCode(rc) = "return"
                  THEN /\ success' = rc
                       /\ main_pc' = "compiled"
                       /\ objfiles' = objfiles
                  ELSE /\ objfiles' = SaveObject(objfiles, cmd.objfile)
                       /\ UNCHANGED <<main_pc, success>>
    /\ UNCHANGED <<cflags, link, makefile_written>>
    /\ UNCHANGED <<ordervars, isovars, mainvars>>

\* after the loop: the link command, built and run
LinkObjects ==
    /\ main_pc = "for srcfile"
    /\ Len(compiles) = Len(orderedsourcefiles)
    /\ \E proc \in Popen(~dryrun) :
       \E rc \in {proc[2]} :
          IF proc[1] = "OSError"
          THEN /\ main_pc' = "raised"
               /\ UNCHANGED <<link, success>>
          ELSE /\ link' = [issued |-> TRUE, ran |-> ~dryrun,
                           objfiles |-> objfiles, returncode |-> rc]
               /\ IF OnReturnCode(rc) = "return"
                  THEN /\ success' = rc
                       /\ main_pc' = "compiled"
                  ELSE /\ main_pc' = "makefile"
                       /\ success' = success
    /\ UNCHANGED <<cflags, compiles, objfiles, makefile_written>>
    /\ UNCHANGED <<ordervars, isovars, mainvars>>

\* if makefile: create_makefile(...); return 0
CreateMakefile ==
    /\ main_pc = "makefile"
    /\ \E makefile \in BOOLEAN : makefile_written' = makefile
    /\ success' = 0
    /\ main_pc' = "compiled"
    /\ UNCHANGED <<cflags, compiles, objfiles, link>>
    /\ UNCHANGED <<ordervars, isovars, mainvars>>

\* main: clean(...) if makeclean; return success
MainReturn ==
    /\ main_pc = "compiled"
    /\ main_pc' = "returned"
    /\ UNCHANGED <<cflags, compiles, objfiles, link, makefile_written, success>>
    /\ UNCHANGED <<ordervars, isovars, mainvars>>

NextGnu ==
    \/ StageBuildFile
    \/ GetOrderedSrcfiles
    \/ CompileWithGnu
    \/ CompileUnit
    \/ LinkObjects
    \/ CreateMakefile
    \/ MainReturn

SpecGnu == InitGnu /\ [][NextGnu]_vars

-----------------------------------------------------------------------------
(* C12  Compile-then-link ordering: the compile commands of                 *)
(* compile_with_gnu are those of the source list, in its order, one by     *)
(* one; the link command is issued only when every file of the list was    *)
(* compiled or skipped and none failed; it lists the object files of the   *)
(* source files, in the order of the list, one for each.                   *)
C12_CompileThenLink ==
    /\ Len(compiles) <= Len(orderedsourcefiles)
    /\ \A i \in 1..Len(compiles) :
          /\ compiles[i].srcfile = orderedsourcefiles[i]
          /\ i < Len(compiles) => compiles[i].returncode = 0
    /\ link.issued =>
          /\ Len(compiles) = Len(orderedsourcefiles)
          /\ \A i \in 1..Len(compiles) : compiles[i].returncode = 0
          /\ link.objfiles
               = [i \in 1..Len(orderedsourcefiles) |-> ObjFile(orderedsourcefiles[i])]

\* a.f was found before b.f and needs its module: b.f is compiled first,
\* both compiles are run, and b's object file is first in the link command
C12_Witness ==
    /\ link.issued
    /\ Len(tree) = 2
    /\ TPath(1) = PathJoin(srcdir_temp, <<"a">> \o ExtF)
    /\ orderedsourcefiles = <<TPath(2), TPath(1)>>
    /\ compiles[1].ran /\ compiles[2].ran
    /\ link.objfiles = <<ObjFile(TPath(2)), ObjFile(TPath(1))>>

-----------------------------------------------------------------------------
(* C13  Fail-fast on compile or link failure: when a compile ends with a   *)
(* code that is not 0, compile_with_gnu returns that code at once: the     *)
(* command is the last one, no link command is issued and no makefile      *)
(* written.  When the link ends with a code that is not 0, that code is    *)
(* returned and no makefile written.  0 is returned only when no compile   *)
(* and no link ended with another code.                                    *)
C13_FailFast ==
    /\ \A i \in 1..Len(compiles) :
          compiles[i].returncode # 0 =>
            /\ i = Len(compiles)
            /\ main_pc \in {"compiled", "returned"}
            /\ success = compiles[i].returncode
            /\ ~link.issued
            /\ ~makefile_written
    /\ link.returncode # 0 =>
          /\ main_pc \in {"compiled", "returned"}
          /\ success = link.returncode
          /\ ~makefile_written
    /\ (main_pc \in {"compiled", "returned"} /\ success = 0) =>
          /\ \A i \in 1..Len(compiles) : compiles[i].returncode = 0
          /\ link.returncode = 0

\* the first of two compiles fails: its code is returned, the second file
\* is not compiled
C13_Witness ==
    /\ main_pc = "returned"
    /\ Len(orderedsourcefiles) = 2
    /\ Len(compiles) = 1
    /\ compiles[1].ran
    /\ compiles[1].returncode = 1
    /\ success = 1

-----------------------------------------------------------------------------
(* C14  Expedite skips only up-to-date units: with expedite set a file is  *)
(* compiled if and only if its object file does not exist or is not        *)
(* strictly newer than the source file (equal times: compiled); the object *)
(* file of a skipped file is in the link command at the file's place; with *)
(* expedite unset every file the loop comes to is compiled.                *)
C14_ExpediteSkipsUpToDate ==
    \A i \in 1..Len(compiles) :
       With(compiles[i], LAMBDA e :
         /\ expedite =>
               /\ e.objstate # Unread
               /\ e.compilefile <=> (e.objstate = NoObject \/ e.objstate <= SrcMTime)
         /\ ~expedite => e.compilefile
         /\ e.ran <=> (e.compilefile /\ ~dryrun)
         /\ ~e.compilefile =>
               /\ objfiles[i] = e.objfile
               /\ link.issued => link.objfiles[i] = e.objfile)

\* of two files the first is skipped, its object file being newer, the
\* second compiled, its object file being as old as the source; the link
\* command has both object files
C14_Witness ==
    /\ expedite
    /\ ~dryrun
    /\ link.issued
    /\ Len(compiles) = 2
    /\ ~compiles[1].compilefile
    /\ compiles[1].objstate > SrcMTime
    /\ compiles[2].ran
    /\ compiles[2].objstate = SrcMTime
    /\ link.objfiles = <<compiles[1].objfile, compiles[2].objfile>>

-----------------------------------------------------------------------------
(* C16  Language bucket and compiler agree: a file get_ordered_srcfiles    *)
(* puts with the C/C++ files is compiled with the C compiler and the C     *)
(* flags, a file it puts with the Fortran files with the Fortran compiler  *)
(* and the Fortran flags, whatever the letter case of the extension.       *)
C16_BucketAndCompilerAgree ==
    \A i \in 1..Len(compiles) :
       With(compiles[i], LAMBDA e :
         /\ e.srcfile \in Range(cfiles) =>
               e.compiler = cc /\ e.flags = cflags
         /\ e.srcfile \in Range(srcfiles) =>
               e.compiler = FcName /\ e.flags = CompileFlags)

-----------------------------------------------------------------------------
(* C17  One object file per compilation unit: the object files of          *)
(* different source files of the list differ, so no compile writes the     *)
(* object file of another file and the link command has no object file     *)
(* twice.                                                                  *)
C17_OneObjectPerUnit ==
    /\ \A i, j \in 1..Len(compiles) :
          compiles[i].srcfile # compiles[j].srcfile
            => compiles[i].objfile # compiles[j].objfile
    /\ \A i, j \in 1..Len(link.objfiles) :
          i # j => link.objfiles[i] # link.objfiles[j]

-----------------------------------------------------------------------------
(* pymake.py compile_with_ifort and makebatch: the build on Windows, and   *)
(* main with any compiler                                                  *)

\* makebatch: the command written to the batch file for srcfile
BatchCommand(srcfile) ==
    [srcfile |-> srcfile,
     compiler |-> IF IsCSource(srcfile) THEN "cl.exe" ELSE "ifort.exe",
     flags |-> IF IsCSource(srcfile) THEN <<"-nologo", "-c", "-O2">>
               ELSE <<"-heap-arrays:0", "-fpe:0", "-traceback", "-nologo", "-O2">>,
     objfile |-> PathJoin(objdir_temp,
                          LastComponent(SplitextRoot(srcfile)) \o <<".", "o", "b", "j">>),
     objstate |-> Unread, compilefile |-> TRUE, ran |-> FALSE, returncode |-> 0]

\* what compile_with_ifort returns.  found: makebatch finds the compiler's
\* environment; started: Popen starts the batch file; built: the target is
\* an executable afterwards.  An exception of makebatch or Popen is caught
\* by the bare except, and the function goes on to its last return
IfortReturn(found, started, built) ==
    IF ~found \/ ~started THEN 0
    ELSE IF flopy_avail THEN (IF ~built THEN 1 ELSE 0)
    ELSE 0

\* main: else: success = compile_with_ifort(...)
CompileWithIfort ==
    /\ pc = "ordered"
    /\ main_pc = "main"
    /\ fc = "ifort"
    /\ platform # "darwin"
    /\ \E built \in IF toolchain /\ platform = "win32" THEN BOOLEAN ELSE {FALSE} :
          /\ compiles' = IF toolchain
                         THEN [i \in 1..Len(orderedsourcefiles) |->
                                 [BatchCommand(orderedsourcefiles[i])
                                    EXCEPT !.ran = platform = "win32"]]
                         ELSE <<>>
          /\ link' = IF toolchain /\ platform = "win32"
                     THEN [issued |-> TRUE, ran |-> TRUE, objfiles |-> <<>>,
                           returncode |-> IF built THEN 0 ELSE 1]
                     ELSE link
          /\ success' = IfortReturn(toolchain, platform = "win32", built)
    /\ cflags' = <<"-nologo", "-c", "-O2">>
    /\ main_pc' = "compiled"
    /\ UNCHANGED <<objfiles, makefile_written>>
    /\ UNCHANGED <<ordervars, isovars, mainvars>>

\* main: else: raise Exception('Unsupported compiler')
Unsupported ==
    /\ pc = "ordered"
    /\ main_pc = "main"
    /\ fc \notin {"gfortran", "ifort"}
    /\ main_pc' = "raised"
    /\ UNCHANGED <<cflags, compiles, objfiles, link, makefile_written, success>>
    /\ UNCHANGED <<ordervars, isovars, mainvars>>

NextMain ==
    \/ StageMainFile
    \/ GetOrderedSrcfiles
    \/ CompileWithGnu
    \/ CompileWithMacIfort
    \/ CompileWithIfort
    \/ Unsupported
    \/ CompileUnit
    \/ LinkObjects
    \/ CreateMakefile
    \/ MainReturn

SpecMain == InitMain /\ [][NextMain]_vars

-----------------------------------------------------------------------------
(* C15  Failure is visible in the exit status on every compiler path: main *)
(* returns 0 only if the compiler was found and every compile and link     *)
(* step succeeded (a dry run, which runs nothing, is left aside).          *)
C15_FailureVisible ==
    (main_pc = "returned" /\ success = 0 /\ ~dryrun) =>
      /\ toolchain
      /\ \A i \in 1..Len(compiles) : compiles[i].ran /\ compiles[i].returncode = 0
      /\ link.ran /\ link.returncode = 0

====
